---- MODULE Spec2Model ----
(***************************************************************************)
(* Model of cmd/cp-url.go: the copy-URL classifier (guessCopyURLType), the *)
(* Type A/B/C/D expanders and the generate -> filter pipeline of           *)
(* prepareCopyURLs.                                                        *)
(*                                                                         *)
(* Paths are sequences of one-character strings, so that the path rewrite  *)
(* of makeCopyContentTypeC is computed character by character as the code  *)
(* does.  A pointer that may be nil is a sequence of length 0 or 1.        *)
(***************************************************************************)
EXTENDS Integers, Sequences, FiniteSets, TLC

VARIABLES
    opts,         \* prepareCopyURLsOpts of the invocation
    targetIsDir,  \* backend state: what isAliasURLDir answers for the target
    backend,      \* backend state: how many records its listings hold at
                  \* most, and of which kinds
    cpType,       \* classification computed by the generator ("none" before)
    cpErr,        \* whether guessCopyURLType returned a non-nil error
    probes,       \* number of source probes guessCopyURLType made
    genPc,        \* generator task of prepareCopyURLs
    genJob,       \* Job the generator holds (0 or 1 element)
    genThen,      \* what the generator does after its send
    filPc,        \* filter task of prepareCopyURLs
    filJob,       \* Job the filter holds
    cPc,          \* Type C expander task
    cSrc,         \* index of the source argument the expander works on
    cJob,         \* Job the expander is sending
    cThen,        \* "continue" or "return" after the expander's send
    dPc,          \* Type D sequencer task
    dIdx,         \* index of the source argument the sequencer is at
    dJob,         \* Job the sequencer is sending
    clients,      \* per source argument: "none", "ok" or "fail" (newClient)
    listed,       \* per source argument: records its listing has yielded
    listEnded,    \* per source argument: the listing's stream has closed
    cSent,        \* per source argument: Jobs sent on the expander's channel
    cClosed,      \* per source argument: the expander's channel is closed
    dSent,        \* Jobs sent on the Type D channel
    dClosed,      \* the Type D channel is closed
    genSent,      \* Jobs sent on copyURLsCh (generator -> filter)
    genClosed,    \* copyURLsCh is closed
    delivered,    \* Jobs the caller received on finalCopyURLsCh
    finalClosed,  \* finalCopyURLsCh is closed
    crashed,      \* "no", "fatal" (fatalIf) or "panic" (nil dereference)
    cancelled,    \* the context's cancellation signal has fired
    consumerOn,   \* the caller is still receiving
    chanLog,      \* per channel: the tasks that sent on it or closed it, the
                  \* number of times it was closed, a send on it after a close
    pSource,      \* path rewrite: path of the source argument
    pRecord,      \* path rewrite: path of the listed record
    pTarget,      \* path rewrite: target path
    pResult,      \* path rewrite: the Job built (0 or 1 element)
    pStat,        \* single-source expander: url2Stat's answer (0 or 1 element)
    pOp,          \* single-source expander applied: "none", "A" or "B"
    pStatted      \* single-source expander: URLs it handed to url2Stat

pipeVars == <<opts, targetIsDir, backend, cpType, cpErr, probes, genPc, genJob, genThen,
              filPc, filJob, cPc, cSrc, cJob, cThen, dPc, dIdx, dJob, clients,
              listed, listEnded, cSent, cClosed, dSent, dClosed, genSent, genClosed,
              delivered, finalClosed, crashed, cancelled, consumerOn, chanLog>>

pathVars == <<pSource, pRecord, pTarget, pResult, pStat, pOp, pStatted>>

vars == <<pipeVars, pathVars>>

----------------------------------------------------------------------------
(* Bounds *)

\* Total number of records the listings of one invocation yield.
MaxRecords == 3

\* Longest path drawn for the path rewrite.
MaxPathLen == 4

----------------------------------------------------------------------------
(* Strings and paths *)

\* os.PathSeparator of the build and ClientURL.Separator of the URLs used.
OSPathSeparator == "/"

Separator == "/"

None == <<>>

Some(x) == <<x>>

\* strings.LastIndex for a one-character separator: Go's 0-based index, -1
\* when absent.
LastIndex(s, c) ==
    LET I == {i \in 1..Len(s) : s[i] = c}
    IN  IF I = {} THEN -1 ELSE (CHOOSE i \in I : \A j \in I : j <= i) - 1

HasPrefix(s, p) == Len(p) <= Len(s) /\ SubSeq(s, 1, Len(p)) = p

HasSuffix(s, p) ==
    Len(p) <= Len(s) /\ SubSeq(s, Len(s) - Len(p) + 1, Len(s)) = p

\* strings.TrimPrefix
TrimPrefix(s, p) == IF HasPrefix(s, p) THEN SubSeq(s, Len(p) + 1, Len(s)) ELSE s

\* filepath.ToSlash: every os.PathSeparator becomes a forward slash.
ToSlash(s) == [i \in 1..Len(s) |-> IF s[i] = OSPathSeparator THEN "/" ELSE s[i]]

\* urlJoinPath(base, suffix): base and suffix joined by exactly one forward
\* slash.
urlJoinPath(base, suffix) ==
    LET b == ToSlash(base)
        s == TrimPrefix(ToSlash(suffix), <<"/">>)
    IN  IF HasSuffix(b, <<"/">>) THEN b \o s ELSE b \o <<"/">> \o s

\* filepath.Clean, as far as the paths used here need it: runs of separators
\* collapse to one and a trailing separator is dropped.
RECURSIVE Clean(_)
Clean(s) ==
    IF Len(s) = 0 THEN <<>>
    ELSE IF Len(s) = 1 THEN s
    ELSE IF s[Len(s)] = OSPathSeparator /\ s[Len(s) - 1] = OSPathSeparator
         THEN Clean(SubSeq(s, 1, Len(s) - 1))
    ELSE Clean(SubSeq(s, 1, Len(s) - 1)) \o <<s[Len(s)]>>

CleanPath(s) ==
    LET c == Clean(s)
    IN  IF Len(c) > 1 /\ c[Len(c)] = OSPathSeparator
        THEN SubSeq(c, 1, Len(c) - 1)
        ELSE IF Len(c) = 0 THEN <<".">> ELSE c

\* filepath.Join of two elements.
filepathJoin(a, b) ==
    IF Len(a) = 0 /\ Len(b) = 0 THEN <<>>
    ELSE IF Len(a) = 0 THEN CleanPath(b)
    ELSE IF Len(b) = 0 THEN CleanPath(a)
    ELSE CleanPath(a \o <<OSPathSeparator>> \o b)

\* filepath.Base: the last element of the path, trailing separators removed.
filepathBase(p) ==
    IF Len(p) = 0 THEN <<".">>
    ELSE LET c == CleanPath(p)
             i == LastIndex(c, OSPathSeparator)
         IN  IF c = <<OSPathSeparator>> THEN c
             ELSE SubSeq(c, i + 2, Len(c))

----------------------------------------------------------------------------
(* The paths of the invocations: the scenarios of the documentation *)

\* "file.txt"
P_file_txt == <<"f", "i", "l", "e", ".", "t", "x", "t">>

\* "bucket/"
P_bucket_slash == <<"b", "u", "c", "k", "e", "t", "/">>

\* "bucket"
P_bucket == <<"b", "u", "c", "k", "e", "t">>

\* "dir/"
P_dir_slash == <<"d", "i", "r", "/">>

\* "dir/a.txt"
P_dir_a_txt == <<"d", "i", "r", "/", "a", ".", "t", "x", "t">>

\* "dir/sub/b.txt"
P_dir_sub_b_txt == <<"d", "i", "r", "/", "s", "u", "b", "/", "b", ".", "t", "x", "t">>

\* "bucket/dir1"
P_bucket_dir1 == <<"b", "u", "c", "k", "e", "t", "/", "d", "i", "r", "1">>

\* "bucket/dir1/sub/file.txt"
P_bucket_dir1_sub_file_txt ==
    <<"b", "u", "c", "k", "e", "t", "/", "d", "i", "r", "1", "/",
      "s", "u", "b", "/", "f", "i", "l", "e", ".", "t", "x", "t">>

\* "bucket2/out"
P_bucket2_out == <<"b", "u", "c", "k", "e", "t", "2", "/", "o", "u", "t">>

\* "f1.txt"
P_f1_txt == <<"f", "1", ".", "t", "x", "t">>

\* "f2.txt"
P_f2_txt == <<"f", "2", ".", "t", "x", "t">>

\* "a/b/c.txt"
P_a_b_c_txt == <<"a", "/", "b", "/", "c", ".", "t", "x", "t">>

\* "d/e"
P_d_e == <<"d", "/", "e">>

----------------------------------------------------------------------------
(* Data: URLs, content records, Jobs *)

\* An aliased URL as the caller writes it: alias and backend-relative path.
URL(alias, path) == [alias |-> alias, path |-> path]

\* mustExpandAlias(url): the alias and the alias-stripped URL.
mustExpandAlias(u) == [alias |-> u.alias, url |-> u.path]

copyURLsTypeInvalid == "Invalid"

copyURLsTypeA == "A"

copyURLsTypeB == "B"

copyURLsTypeC == "C"

copyURLsTypeD == "D"

\* Modification times, by their place relative to the configured references.
Times == {"old", "mid", "new"}

\* The older-than / newer-than bound strings: empty, or a duration.
BoundStrings == {"", "7d"}

\* isOlder(time, ref) / isNewer(time, ref): the time lies before / after the
\* reference the bound string resolves to.
isOlder(t, ref) == ref # "" /\ t = "old"

isNewer(t, ref) == ref # "" /\ t = "new"

\* ClientContent of a backend entry.  src and idx identify the entry: the
\* source argument whose stat or listing produced it and its place there.
Content(type, time, path, version, src, idx) ==
    [Err |-> FALSE, Type |-> type, Time |-> time, Path |-> path,
     VersionID |-> version, src |-> src, idx |-> idx]

\* A listing entry that carries an error instead of a description.
ErrContent(src, idx) ==
    [Err |-> TRUE, Type |-> "", Time |-> "", Path |-> <<>>,
     VersionID |-> "", src |-> src, idx |-> idx]

\* An error Job that also carries the content record of the failing entry.
ErrorJob_WithContent(kind, src, idx) ==
    [Error |-> Some([kind |-> kind, src |-> src, idx |-> idx]),
     SourceAlias |-> "", SourceContent |-> Some(ErrContent(src, idx)),
     TargetAlias |-> "", TargetContent |-> None]

\* URLs{Error: err}: every other field has its zero value.
ErrorJob(kind, src, idx) ==
    [Error |-> Some([kind |-> kind, src |-> src, idx |-> idx]),
     SourceAlias |-> "", SourceContent |-> None,
     TargetAlias |-> "", TargetContent |-> None]

IsErrorJob(j) == j.Error # None

IsSuccessJob(j) == j.Error = None

TargetPath(j) == j.TargetContent[1].URL.Path

\* makeCopyContentTypeA
makeCopyContentTypeA(sourceAlias, sourceContent, targetAlias, targetURL) ==
    [Error |-> None,
     SourceAlias |-> sourceAlias, SourceContent |-> Some(sourceContent),
     TargetAlias |-> targetAlias,
     TargetContent |-> Some([URL |-> [Path |-> targetURL]])]

\* makeCopyContentTypeB joining the whole source path onto the target instead
\* of its base name.
makeCopyContentTypeB_FullPath(sourceAlias, sourceContent, targetAlias, targetURL) ==
    makeCopyContentTypeA(sourceAlias, sourceContent, targetAlias,
        ToSlash(filepathJoin(targetURL, sourceContent.Path)))

\* makeCopyContentTypeB
makeCopyContentTypeB(sourceAlias, sourceContent, targetAlias, targetURL) ==
    makeCopyContentTypeA(sourceAlias, sourceContent, targetAlias,
        ToSlash(filepathJoin(targetURL, filepathBase(sourceContent.Path))))

\* makeCopyContentTypeC stripping as soon as the last separator is at index 1.
makeCopyContentTypeC_Guard1(sourceAlias, sourceURL, sourceContent, targetAlias, targetURL) ==
    LET pathSeparatorIndex == LastIndex(sourceURL, Separator)
        suffix == ToSlash(sourceContent.Path)
        newSourceSuffix ==
            IF pathSeparatorIndex >= 1
            THEN TrimPrefix(suffix, ToSlash(SubSeq(sourceURL, 1, pathSeparatorIndex)))
            ELSE suffix
    IN  makeCopyContentTypeA(sourceAlias, sourceContent, targetAlias,
                             urlJoinPath(targetURL, newSourceSuffix))

\* makeCopyContentTypeC never stripping the source prefix.
makeCopyContentTypeC_NoStrip(sourceAlias, sourceURL, sourceContent, targetAlias, targetURL) ==
    makeCopyContentTypeA(sourceAlias, sourceContent, targetAlias,
                         urlJoinPath(targetURL, ToSlash(sourceContent.Path)))

\* makeCopyContentTypeC stripping the whole source argument instead of the
\* part before its last separator.
makeCopyContentTypeC_WholeArg(sourceAlias, sourceURL, sourceContent, targetAlias, targetURL) ==
    LET pathSeparatorIndex == LastIndex(sourceURL, Separator)
        suffix == ToSlash(sourceContent.Path)
        newSourceSuffix ==
            IF pathSeparatorIndex > 1
            THEN TrimPrefix(suffix, ToSlash(sourceURL))
            ELSE suffix
    IN  makeCopyContentTypeA(sourceAlias, sourceContent, targetAlias,
                             urlJoinPath(targetURL, newSourceSuffix))

\* makeCopyContentTypeC: sourceURL is the path of the source client's URL.
makeCopyContentTypeC(sourceAlias, sourceURL, sourceContent, targetAlias, targetURL) ==
    LET pathSeparatorIndex == LastIndex(sourceURL, Separator)
        suffix == ToSlash(sourceContent.Path)
        newSourceSuffix ==
            IF pathSeparatorIndex > 1
            THEN TrimPrefix(suffix, ToSlash(SubSeq(sourceURL, 1, pathSeparatorIndex)))
            ELSE suffix
    IN  makeCopyContentTypeA(sourceAlias, sourceContent, targetAlias,
                             urlJoinPath(targetURL, newSourceSuffix))

----------------------------------------------------------------------------
(* Classifier and single-source expanders *)

\* What a stat or probe of a source can answer.
ProbeOutcomes ==
    {[err |-> TRUE, Type |-> "", Time |-> ""]}
    \cup {[err |-> FALSE, Type |-> t, Time |-> "mid"] : t \in {"file", "dir"}}

StatOutcomes ==
    {[err |-> TRUE, Type |-> "", Time |-> ""]}
    \cup {[err |-> FALSE, Type |-> "file", Time |-> t] : t \in Times}
    \cup {[err |-> FALSE, Type |-> t, Time |-> "mid"] : t \in {"dir", "other"}}

\* guessCopyURLType answering Invalid without an error when several sources
\* meet a target that is not a directory.
guessCopyURLType_InvalidNoError(o, probe, tgtIsDir) ==
    IF Len(o.sourceURLs) = 1
    THEN IF probe.err
         THEN [cpType |-> copyURLsTypeInvalid, cpVersion |-> "", err |-> TRUE, probes |-> 1]
         ELSE IF probe.Type = "dir" \/ o.isRecursive
         THEN [cpType |-> copyURLsTypeC, cpVersion |-> "", err |-> FALSE, probes |-> 1]
         ELSE IF tgtIsDir
         THEN [cpType |-> copyURLsTypeB, cpVersion |-> o.versionID, err |-> FALSE, probes |-> 1]
         ELSE [cpType |-> copyURLsTypeA, cpVersion |-> o.versionID, err |-> FALSE, probes |-> 1]
    ELSE IF tgtIsDir
         THEN [cpType |-> copyURLsTypeD, cpVersion |-> "", err |-> FALSE, probes |-> 0]
         ELSE [cpType |-> copyURLsTypeInvalid, cpVersion |-> "", err |-> FALSE, probes |-> 0]

\* guessCopyURLType testing the target before the recursion flag.
guessCopyURLType_TargetFirst(o, probe, tgtIsDir) ==
    IF Len(o.sourceURLs) = 1
    THEN IF probe.err
         THEN [cpType |-> copyURLsTypeInvalid, cpVersion |-> "", err |-> TRUE, probes |-> 1]
         ELSE IF tgtIsDir
         THEN [cpType |-> copyURLsTypeB, cpVersion |-> o.versionID, err |-> FALSE, probes |-> 1]
         ELSE IF probe.Type = "dir" \/ o.isRecursive
         THEN [cpType |-> copyURLsTypeC, cpVersion |-> "", err |-> FALSE, probes |-> 1]
         ELSE [cpType |-> copyURLsTypeA, cpVersion |-> o.versionID, err |-> FALSE, probes |-> 1]
    ELSE IF tgtIsDir
         THEN [cpType |-> copyURLsTypeD, cpVersion |-> "", err |-> FALSE, probes |-> 0]
         ELSE [cpType |-> copyURLsTypeInvalid, cpVersion |-> "", err |-> TRUE, probes |-> 0]

\* guessCopyURLType answering D for several sources whatever the target is.
guessCopyURLType_AlwaysD(o, probe, tgtIsDir) ==
    IF Len(o.sourceURLs) = 1
    THEN IF probe.err
         THEN [cpType |-> copyURLsTypeInvalid, cpVersion |-> "", err |-> TRUE, probes |-> 1]
         ELSE IF probe.Type = "dir" \/ o.isRecursive
         THEN [cpType |-> copyURLsTypeC, cpVersion |-> "", err |-> FALSE, probes |-> 1]
         ELSE IF tgtIsDir
         THEN [cpType |-> copyURLsTypeB, cpVersion |-> o.versionID, err |-> FALSE, probes |-> 1]
         ELSE [cpType |-> copyURLsTypeA, cpVersion |-> o.versionID, err |-> FALSE, probes |-> 1]
    ELSE [cpType |-> copyURLsTypeD, cpVersion |-> "", err |-> FALSE, probes |-> 0]

\* guessCopyURLType: probe is the answer of url2Stat (or of firstURL2Stat
\* under recursion) for the single source, tgtIsDir that of isAliasURLDir.
\* The stat'ed content carries the version asked for.
guessCopyURLType(o, probe, tgtIsDir) ==
    IF Len(o.sourceURLs) = 1
    THEN IF probe.err
         THEN [cpType |-> copyURLsTypeInvalid, cpVersion |-> "", err |-> TRUE, probes |-> 1]
         ELSE IF probe.Type = "dir" \/ o.isRecursive
         THEN [cpType |-> copyURLsTypeC, cpVersion |-> "", err |-> FALSE, probes |-> 1]
         ELSE IF tgtIsDir
         THEN [cpType |-> copyURLsTypeB, cpVersion |-> o.versionID, err |-> FALSE, probes |-> 1]
         ELSE [cpType |-> copyURLsTypeA, cpVersion |-> o.versionID, err |-> FALSE, probes |-> 1]
    ELSE IF tgtIsDir
         THEN [cpType |-> copyURLsTypeD, cpVersion |-> "", err |-> FALSE, probes |-> 0]
         ELSE [cpType |-> copyURLsTypeInvalid, cpVersion |-> "", err |-> TRUE, probes |-> 0]

\* The URLs prepareCopyURLsTypeA hands to url2Stat: the source, once.
url2StatCallsTypeA(sourceURL, targetURL) == <<sourceURL>>

\* prepareCopyURLsTypeA accepting a directory as the source.
prepareCopyURLsTypeA_DirAllowed(sourceURL, sourceVersion, targetURL, stat) ==
    LET sourceAlias == mustExpandAlias(sourceURL).alias
        target == mustExpandAlias(targetURL)
        sourceContent ==
            Content(stat.Type, stat.Time, mustExpandAlias(sourceURL).url, sourceVersion, 1, 0)
    IN  IF stat.err THEN ErrorJob("stat", 1, 0)
        ELSE IF stat.Type \notin {"file", "dir"} THEN ErrorJob("invalidSource", 1, 0)
        ELSE makeCopyContentTypeA(sourceAlias, sourceContent, target.alias, target.url)

\* prepareCopyURLsTypeA: stat is the answer of url2Stat for the source.
prepareCopyURLsTypeA(sourceURL, sourceVersion, targetURL, stat) ==
    LET sourceAlias == mustExpandAlias(sourceURL).alias
        target == mustExpandAlias(targetURL)
        sourceContent ==
            Content(stat.Type, stat.Time, mustExpandAlias(sourceURL).url, sourceVersion, 1, 0)
    IN  IF stat.err THEN ErrorJob("stat", 1, 0)
        ELSE IF stat.Type # "file" THEN ErrorJob("invalidSource", 1, 0)
        ELSE makeCopyContentTypeA(sourceAlias, sourceContent, target.alias, target.url)

\* The URLs prepareCopyURLsTypeB hands to url2Stat: the source, once.
url2StatCallsTypeB(sourceURL, targetURL) == <<sourceURL>>

\* prepareCopyURLsTypeB
prepareCopyURLsTypeB(sourceURL, sourceVersion, targetURL, stat) ==
    LET sourceAlias == mustExpandAlias(sourceURL).alias
        target == mustExpandAlias(targetURL)
        sourceContent ==
            Content(stat.Type, stat.Time, mustExpandAlias(sourceURL).url, sourceVersion, 1, 0)
    IN  IF stat.err THEN ErrorJob("stat", 1, 0)
        ELSE IF stat.Type # "file"
        THEN IF stat.Type = "dir" THEN ErrorJob("sourceIsDir", 1, 0)
             ELSE ErrorJob("invalidSource", 1, 0)
        ELSE makeCopyContentTypeB(sourceAlias, sourceContent, target.alias, target.url)

----------------------------------------------------------------------------
(* Type C: what the expander does with one record of the listing *)

\* OnListRecord returning after a failing record instead of continuing.
OnListRecord_ReturnOnError(sourceURL, targetURL, rec) ==
    LET sourceAlias == mustExpandAlias(sourceURL).alias
        target == mustExpandAlias(targetURL)
    IN  IF rec.Err
        THEN [job |-> Some(ErrorJob("listing", rec.src, rec.idx)), then |-> "return"]
        ELSE IF rec.Type # "file"
        THEN [job |-> None, then |-> "continue"]
        ELSE [job |-> Some(makeCopyContentTypeC(sourceAlias, mustExpandAlias(sourceURL).url,
                                                rec, target.alias, target.url)),
              then |-> "continue"]

\* The body of the loop over the listing: the Job to send for the record, if
\* any, and whether the loop goes on.
OnListRecord(sourceURL, targetURL, rec) ==
    LET sourceAlias == mustExpandAlias(sourceURL).alias
        target == mustExpandAlias(targetURL)
    IN  IF rec.Err
        THEN [job |-> Some(ErrorJob("listing", rec.src, rec.idx)), then |-> "continue"]
        ELSE IF rec.Type # "file"
        THEN [job |-> None, then |-> "continue"]
        ELSE [job |-> Some(makeCopyContentTypeC(sourceAlias, mustExpandAlias(sourceURL).url,
                                                rec, target.alias, target.url)),
              then |-> "continue"]

----------------------------------------------------------------------------
(* Filter: what the filter task does with one Job *)

\* The filter loop without its newer-than test.
FilterVerdict_NoNewer(o, job) ==
    IF o.olderThan # "" /\ job.SourceContent = None THEN "panic"
    ELSE IF o.olderThan # "" /\ isOlder(job.SourceContent[1].Time, o.olderThan) THEN "skip"
    ELSE "forward"

\* The two tests of the filter loop, in the code's order.  Reading
\* cpURLs.SourceContent.Time of a Job whose SourceContent is nil is a nil
\* pointer dereference: the runtime panics and the process dies.
FilterVerdict(o, job) ==
    IF o.olderThan # "" /\ job.SourceContent = None THEN "panic"
    ELSE IF o.olderThan # "" /\ isOlder(job.SourceContent[1].Time, o.olderThan) THEN "skip"
    ELSE IF o.newerThan # "" /\ job.SourceContent = None THEN "panic"
    ELSE IF o.newerThan # "" /\ isNewer(job.SourceContent[1].Time, o.newerThan) THEN "skip"
    ELSE "forward"

----------------------------------------------------------------------------
(* Invocations and backend *)

SourceAliasName == "src"

TargetAliasName == "dst"

Src(path) == URL(SourceAliasName, path)

Tgt(path) == URL(TargetAliasName, path)

\* The invocations: sources and target of the documented scenarios,
\* and the invocation without any source.
Invocations ==
    { [sourceURLs |-> <<Src(P_file_txt)>>, targetURL |-> Tgt(P_bucket_slash)],
      [sourceURLs |-> <<Src(P_dir_slash)>>, targetURL |-> Tgt(P_bucket_slash)],
      [sourceURLs |-> <<Src(P_bucket_dir1)>>, targetURL |-> Tgt(P_bucket2_out)],
      [sourceURLs |-> <<Src(P_a_b_c_txt)>>, targetURL |-> Tgt(P_d_e)],
      [sourceURLs |-> <<Src(P_f1_txt), Src(P_f2_txt)>>, targetURL |-> Tgt(P_bucket)],
      [sourceURLs |-> <<>>, targetURL |-> Tgt(P_bucket)] }

\* The backend's entries under a source path, in enumeration order.
Tree(path) ==
    IF path = P_dir_slash THEN <<P_dir_a_txt, P_dir_sub_b_txt>>
    ELSE IF path = P_bucket_dir1 THEN <<P_bucket_dir1_sub_file_txt>>
    ELSE <<path>>

\* Path of the idx-th record a listing of the source yields (a versioned
\* listing yields a path once per version, so the paths repeat).
EntryPath(sourceURL, idx) ==
    LET t == Tree(sourceURL.path)
    IN  t[((idx - 1) % Len(t)) + 1]

\* The kinds of record a backend may hold: a failing record, a directory,
\* a regular file of each time.
RecordKinds == {"err", "dir"} \cup Times

\* The records the listing of source argument src may yield at place idx,
\* among the kinds the backend holds: a failing record, a directory, or a
\* regular file of any time.
NextRecords(o, kinds, src, idx) ==
    LET p == EntryPath(o.sourceURLs[src], idx)
    IN  {ErrContent(src, idx) : k \in kinds \cap {"err"}}
        \cup {Content("dir", "mid", p, "", src, idx) : k \in kinds \cap {"dir"}}
        \cup {Content("file", t, p, "", src, idx) : t \in kinds \cap Times}

RECURSIVE SumLen(_)
SumLen(ss) == IF Len(ss) = 0 THEN 0 ELSE Len(ss[1]) + SumLen(Tail(ss))

NumSources == Len(opts.sourceURLs)

PathIdle ==
    /\ pSource = <<>>
    /\ pRecord = <<>>
    /\ pTarget = <<>>
    /\ pResult = None
    /\ pStat = None
    /\ pOp = "none"
    /\ pStatted = <<>>

\* The tasks of the pipeline.
Expander(i) == <<"expander", i>>

Sequencer == <<"sequencer", 0>>

Generator == <<"generator", 0>>

Filter == <<"filter", 0>>

\* The channels: the one each call of prepareCopyURLsTypeC makes (one per
\* source argument), the one of prepareCopyURLsTypeD, copyURLsCh and
\* finalCopyURLsCh of prepareCopyURLs.
ExpanderCh(i) == <<"typeC", i>>

SequencerCh == <<"typeD", 0>>

GeneratorCh == <<"copyURLsCh", 0>>

FinalCh == <<"finalCopyURLsCh", 0>>

Channels(n) == {ExpanderCh(i) : i \in 1..n} \cup {SequencerCh, GeneratorCh, FinalCh}

UnusedChannel == [senders |-> {}, closers |-> {}, closes |-> 0, sentAfterClose |-> FALSE]

\* A send by the task has completed on the channel; closed tells whether the
\* channel was closed at that moment.
LogSend(log, ch, task, closed) ==
    [log EXCEPT ![ch] = [@ EXCEPT !.senders = @ \cup {task},
                                  !.sentAfterClose = @ \/ closed]]

\* The task has closed the channel.
LogClose(log, ch, task) ==
    [log EXCEPT ![ch] = [@ EXCEPT !.closers = @ \cup {task}, !.closes = @ + 1]]

\* prepareCopyURLs has been called: both tasks are at their start, nothing
\* has been listed or sent.
Started ==
    /\ cpType = "none"
    /\ cpErr = FALSE
    /\ probes = <<>>
    /\ genPc = "start"
    /\ genJob = None
    /\ genThen = "range"
    /\ filPc = "recv"
    /\ filJob = None
    /\ cPc = "idle"
    /\ cSrc = 0
    /\ cJob = None
    /\ cThen = "continue"
    /\ dPc = "idle"
    /\ dIdx = 0
    /\ dJob = None
    /\ clients = [i \in 1..NumSources |-> "none"]
    /\ listed = [i \in 1..NumSources |-> <<>>]
    /\ listEnded = [i \in 1..NumSources |-> FALSE]
    /\ cSent = [i \in 1..NumSources |-> <<>>]
    /\ cClosed = [i \in 1..NumSources |-> FALSE]
    /\ dSent = <<>>
    /\ dClosed = FALSE
    /\ genSent = <<>>
    /\ genClosed = FALSE
    /\ delivered = <<>>
    /\ finalClosed = FALSE
    /\ crashed = "no"
    /\ cancelled = FALSE
    /\ consumerOn = TRUE
    /\ chanLog = [ch \in Channels(NumSources) |-> UnusedChannel]
    /\ PathIdle

Init ==
    /\ \E inv \in Invocations, rec \in BOOLEAN, older \in BoundStrings, newer \in BoundStrings :
          opts = [sourceURLs |-> inv.sourceURLs, targetURL |-> inv.targetURL,
                  isRecursive |-> rec, olderThan |-> older, newerThan |-> newer,
                  versionID |-> "v1"]
    /\ targetIsDir \in BOOLEAN
    /\ backend = [size |-> MaxRecords, kinds |-> RecordKinds]
    /\ Started

----------------------------------------------------------------------------
(* Generator task of prepareCopyURLs *)

\* fatalIf(err, msg): aborts the invocation when err is not nil.
fatalIf(err) == IF err THEN "fatal" ELSE "no"

\* The classification step with the fatalIf call left out.
AfterClassification_NoFatal(g) == "no"

\* guessCopyURLType's error handed to fatalIf.
AfterClassification(g) == fatalIf(g.err)

\* The switch on cpType: where the generator goes and the Job it holds.
Dispatch(o, g, stat) ==
    IF g.cpType = copyURLsTypeA
    THEN [pc |-> "send", then |-> "close", spawn |-> "none",
          job |-> Some(prepareCopyURLsTypeA(o.sourceURLs[1], g.cpVersion, o.targetURL, stat))]
    ELSE IF g.cpType = copyURLsTypeB
    THEN [pc |-> "send", then |-> "close", spawn |-> "none",
          job |-> Some(prepareCopyURLsTypeB(o.sourceURLs[1], g.cpVersion, o.targetURL, stat))]
    ELSE IF g.cpType = copyURLsTypeC
    THEN [pc |-> "range", then |-> "range", spawn |-> "C", job |-> None]
    ELSE IF g.cpType = copyURLsTypeD
    THEN [pc |-> "range", then |-> "range", spawn |-> "D", job |-> None]
    ELSE [pc |-> "send", then |-> "close", spawn |-> "none",
          job |-> Some(ErrorJob("invalidArgument", 0, 0))]

\* The generator classifies the invocation and dispatches on the type.
GenStart ==
    /\ crashed = "no"
    /\ genPc = "start"
    /\ \E probe \in ProbeOutcomes, stat \in StatOutcomes :
          LET g == guessCopyURLType(opts, probe, targetIsDir)
              f == AfterClassification(g)
              d == Dispatch(opts, g, stat)
          IN  /\ cpType' = g.cpType
              /\ cpErr' = g.err
              /\ probes' = IF g.probes = 1 THEN <<probe>> ELSE <<>>
              /\ crashed' = f
              /\ IF f # "no"
                 THEN UNCHANGED <<genPc, genJob, genThen, cPc, cSrc, dPc>>
                 ELSE /\ genPc' = d.pc
                      /\ genJob' = d.job
                      /\ genThen' = d.then
                      /\ cPc' = IF d.spawn = "C" THEN "start" ELSE cPc
                      /\ cSrc' = IF d.spawn = "C" THEN 1 ELSE cSrc
                      /\ dPc' = IF d.spawn = "D" THEN "next" ELSE dPc
    /\ UNCHANGED <<opts, targetIsDir, backend, chanLog, filPc, filJob, cJob, cThen, dIdx, dJob, clients,
                   listed, listEnded, cSent, cClosed, dSent, dClosed, genSent, genClosed,
                   delivered, finalClosed, cancelled, consumerOn>>
    /\ UNCHANGED pathVars

\* The generator receives a Job from the Type C expander (classification C).
GenRecvC ==
    /\ crashed = "no"
    /\ cpType = copyURLsTypeC
    /\ genPc = "range"
    /\ cPc = "send"
    /\ genJob' = cJob
    /\ genPc' = "send"
    /\ genThen' = "range"
    /\ cSent' = [cSent EXCEPT ![cSrc] = Append(@, cJob[1])]
    /\ cJob' = None
    /\ cPc' = IF cThen = "return" THEN "done" ELSE "list"
    /\ cClosed' = IF cThen = "return" THEN [cClosed EXCEPT ![cSrc] = TRUE] ELSE cClosed
    /\ chanLog' = LET sent == LogSend(chanLog, ExpanderCh(cSrc), Expander(cSrc), cClosed[cSrc])
                   IN  IF cThen = "return"
                       THEN LogClose(sent, ExpanderCh(cSrc), Expander(cSrc))
                       ELSE sent
    /\ UNCHANGED <<opts, targetIsDir, backend, cpType, cpErr, probes, filPc, filJob, cSrc, cThen,
                   dPc, dIdx, dJob, clients, listed, listEnded, dSent, dClosed, genSent, genClosed,
                   delivered, finalClosed, crashed, cancelled, consumerOn>>
    /\ UNCHANGED pathVars

\* The generator receives a Job from the Type D sequencer (classification D).
GenRecvD ==
    /\ crashed = "no"
    /\ cpType = copyURLsTypeD
    /\ genPc = "range"
    /\ dPc = "send"
    /\ genJob' = dJob
    /\ genPc' = "send"
    /\ genThen' = "range"
    /\ dSent' = Append(dSent, dJob[1])
    /\ dJob' = None
    /\ dPc' = "range"
    /\ chanLog' = LogSend(chanLog, SequencerCh, Sequencer, dClosed)
    /\ UNCHANGED <<opts, targetIsDir, backend, cpType, cpErr, probes, filPc, filJob, cPc, cSrc, cJob,
                   cThen, dIdx, clients, listed, listEnded, cSent, cClosed, dClosed, genSent,
                   genClosed, delivered, finalClosed, crashed, cancelled, consumerOn>>
    /\ UNCHANGED pathVars

\* The channel the generator ranges over is closed and drained.
ChildClosed ==
    IF cpType = copyURLsTypeC THEN cPc = "done" /\ cClosed[1]
    ELSE cpType = copyURLsTypeD /\ dPc = "done" /\ dClosed

\* The generator's range loop ends; the deferred close of copyURLsCh runs.
GenRangeEnd ==
    /\ crashed = "no"
    /\ genPc = "range"
    /\ ChildClosed
    /\ genPc' = "done"
    /\ genClosed' = TRUE
    /\ chanLog' = LogClose(chanLog, GeneratorCh, Generator)
    /\ UNCHANGED <<opts, targetIsDir, backend, cpType, cpErr, probes, genJob, genThen, filPc, filJob,
                   cPc, cSrc, cJob, cThen, dPc, dIdx, dJob, clients, listed, listEnded, cSent,
                   cClosed, dSent, dClosed, genSent, delivered, finalClosed, crashed,
                   cancelled, consumerOn>>
    /\ UNCHANGED pathVars

----------------------------------------------------------------------------
(* Type C expander task *)

\* The expander's task starts: newClient(sourceURL) succeeds or fails.
TypeCStart ==
    /\ crashed = "no"
    /\ cPc = "start"
    /\ \E ok \in BOOLEAN :
          /\ clients' = [clients EXCEPT ![cSrc] = IF ok THEN "ok" ELSE "fail"]
          /\ cPc' = IF ok THEN "list" ELSE "send"
          /\ cJob' = IF ok THEN None ELSE Some(ErrorJob("client", cSrc, 0))
          /\ cThen' = IF ok THEN "continue" ELSE "return"
    /\ UNCHANGED <<opts, targetIsDir, backend, chanLog, cpType, cpErr, probes, genPc, genJob, genThen, filPc,
                   filJob, cSrc, dPc, dIdx, dJob, listed, listEnded, cSent, cClosed, dSent, dClosed,
                   genSent, genClosed, delivered, finalClosed, crashed, cancelled,
                   consumerOn>>
    /\ UNCHANGED pathVars

\* The listing yields its next record and the loop body handles it.  A
\* cancelled listing yields nothing more.
TypeCListRecord ==
    /\ crashed = "no"
    /\ cPc = "list"
    /\ ~cancelled
    /\ SumLen(listed) < backend.size
    /\ \E rec \in NextRecords(opts, backend.kinds, cSrc, Len(listed[cSrc]) + 1) :
          LET r == OnListRecord(opts.sourceURLs[cSrc], opts.targetURL, rec)
          IN  /\ listed' = [listed EXCEPT ![cSrc] = Append(@, rec)]
              /\ cJob' = r.job
              /\ cThen' = r.then
              /\ cPc' = IF r.job # None THEN "send"
                        ELSE IF r.then = "continue" THEN "list" ELSE "done"
              /\ cClosed' = IF r.job = None /\ r.then = "return"
                            THEN [cClosed EXCEPT ![cSrc] = TRUE] ELSE cClosed
              /\ chanLog' = IF r.job = None /\ r.then = "return"
                            THEN LogClose(chanLog, ExpanderCh(cSrc), Expander(cSrc))
                            ELSE chanLog
    /\ UNCHANGED <<listEnded, opts, targetIsDir, backend, cpType, cpErr, probes, genPc, genJob, genThen, filPc,
                   filJob, cSrc, dPc, dIdx, dJob, clients, cSent, dSent, dClosed, genSent,
                   genClosed, delivered, finalClosed, crashed, cancelled, consumerOn>>
    /\ UNCHANGED pathVars

\* The listing's stream closes: the loop ends and the deferred close runs.
TypeCListEnd ==
    /\ crashed = "no"
    /\ cPc = "list"
    /\ listEnded' = [listEnded EXCEPT ![cSrc] = TRUE]
    /\ cPc' = "done"
    /\ cClosed' = [cClosed EXCEPT ![cSrc] = TRUE]
    /\ chanLog' = LogClose(chanLog, ExpanderCh(cSrc), Expander(cSrc))
    /\ UNCHANGED <<opts, targetIsDir, backend, cpType, cpErr, probes, genPc, genJob, genThen, filPc,
                   filJob, cSrc, cJob, cThen, dPc, dIdx, dJob, clients, listed, cSent,
                   dSent, dClosed, genSent, genClosed, delivered, finalClosed, crashed,
                   cancelled, consumerOn>>
    /\ UNCHANGED pathVars

----------------------------------------------------------------------------
(* Type D sequencer task *)

\* The sequencer visiting the source arguments last to first.
SourceAt_Reversed(k, n) == n + 1 - k

\* The source argument the k-th iteration of the loop over sourceURLs takes.
SourceAt(k, n) == k

\* The loop over sourceURLs: start the expander of the next source argument,
\* or end the loop and run the deferred close.
DNext ==
    /\ crashed = "no"
    /\ dPc = "next"
    /\ IF dIdx < NumSources
       THEN /\ dIdx' = dIdx + 1
            /\ cSrc' = SourceAt(dIdx + 1, NumSources)
            /\ cPc' = "start"
            /\ dPc' = "range"
            /\ UNCHANGED <<dClosed, chanLog>>
       ELSE /\ dPc' = "done"
            /\ dClosed' = TRUE
            /\ chanLog' = LogClose(chanLog, SequencerCh, Sequencer)
            /\ UNCHANGED <<dIdx, cSrc, cPc>>
    /\ UNCHANGED <<opts, targetIsDir, backend, cpType, cpErr, probes, genPc, genJob, genThen, filPc,
                   filJob, cJob, cThen, dJob, clients, listed, listEnded, cSent, cClosed, dSent,
                   genSent, genClosed, delivered, finalClosed, crashed, cancelled,
                   consumerOn>>
    /\ UNCHANGED pathVars

\* The sequencer receiving from the expander while its own send is still
\* pending, as if its channel had a buffer.
DRecvC_Buffered ==
    /\ crashed = "no"
    /\ dPc \in {"range", "send"}
    /\ cPc = "send"
    /\ dJob' = dJob \o cJob
    /\ dPc' = "send"
    /\ cSent' = [cSent EXCEPT ![cSrc] = Append(@, cJob[1])]
    /\ cJob' = None
    /\ cPc' = IF cThen = "return" THEN "done" ELSE "list"
    /\ cClosed' = IF cThen = "return" THEN [cClosed EXCEPT ![cSrc] = TRUE] ELSE cClosed
    /\ chanLog' = LET sent == LogSend(chanLog, ExpanderCh(cSrc), Expander(cSrc), cClosed[cSrc])
                   IN  IF cThen = "return"
                       THEN LogClose(sent, ExpanderCh(cSrc), Expander(cSrc))
                       ELSE sent
    /\ UNCHANGED <<opts, targetIsDir, backend, cpType, cpErr, probes, genPc, genJob, genThen, filPc,
                   filJob, cSrc, cThen, dIdx, clients, listed, listEnded, dSent, dClosed, genSent,
                   genClosed, delivered, finalClosed, crashed, cancelled, consumerOn>>
    /\ UNCHANGED pathVars

\* The sequencer receives a Job from the current expander.
DRecvC ==
    /\ crashed = "no"
    /\ dPc = "range"
    /\ cPc = "send"
    /\ dJob' = cJob
    /\ dPc' = "send"
    /\ cSent' = [cSent EXCEPT ![cSrc] = Append(@, cJob[1])]
    /\ cJob' = None
    /\ cPc' = IF cThen = "return" THEN "done" ELSE "list"
    /\ cClosed' = IF cThen = "return" THEN [cClosed EXCEPT ![cSrc] = TRUE] ELSE cClosed
    /\ chanLog' = LET sent == LogSend(chanLog, ExpanderCh(cSrc), Expander(cSrc), cClosed[cSrc])
                   IN  IF cThen = "return"
                       THEN LogClose(sent, ExpanderCh(cSrc), Expander(cSrc))
                       ELSE sent
    /\ UNCHANGED <<opts, targetIsDir, backend, cpType, cpErr, probes, genPc, genJob, genThen, filPc,
                   filJob, cSrc, cThen, dIdx, clients, listed, listEnded, dSent, dClosed, genSent,
                   genClosed, delivered, finalClosed, crashed, cancelled, consumerOn>>
    /\ UNCHANGED pathVars

\* The sequencer closing its own channel at the end of each inner loop
\* instead of once, when it returns.
DRangeEnd_ClosesD ==
    /\ crashed = "no"
    /\ dPc = "range"
    /\ cPc = "done"
    /\ dPc' = "next"
    /\ cPc' = "idle"
    /\ dClosed' = TRUE
    /\ chanLog' = LogClose(chanLog, SequencerCh, Sequencer)
    /\ UNCHANGED <<opts, targetIsDir, backend, cpType, cpErr, probes, genPc, genJob, genThen, filPc,
                   filJob, cSrc, cJob, cThen, dIdx, dJob, clients, listed, listEnded, cSent, cClosed,
                   dSent, genSent, genClosed, delivered, finalClosed, crashed,
                   cancelled, consumerOn>>
    /\ UNCHANGED pathVars

\* The current expander's channel is closed: the inner range loop ends.
DRangeEnd ==
    /\ crashed = "no"
    /\ dPc = "range"
    /\ cPc = "done"
    /\ dPc' = "next"
    /\ cPc' = "idle"
    /\ UNCHANGED <<opts, targetIsDir, backend, chanLog, cpType, cpErr, probes, genPc, genJob, genThen, filPc,
                   filJob, cSrc, cJob, cThen, dIdx, dJob, clients, listed, listEnded, cSent, cClosed,
                   dSent, dClosed, genSent, genClosed, delivered, finalClosed, crashed,
                   cancelled, consumerOn>>
    /\ UNCHANGED pathVars

----------------------------------------------------------------------------
(* Filter task of prepareCopyURLs, the caller, cancellation *)

\* The filter receives a Job from copyURLsCh and runs its two tests; the
\* generator's send returns (and, after a Type A or B Job, its deferred
\* close runs).  When a test panics, the filter's deferred close of
\* finalCopyURLsCh runs as the panic unwinds, and then the process dies.
FilterRecv ==
    /\ crashed = "no"
    /\ filPc = "recv"
    /\ genPc = "send"
    /\ LET v == FilterVerdict(opts, genJob[1])
       IN  /\ crashed' = IF v = "panic" THEN "panic" ELSE "no"
           /\ finalClosed' = (v = "panic")
           /\ filPc' = IF v = "forward" THEN "send" ELSE "recv"
           /\ filJob' = IF v = "forward" THEN genJob ELSE None
    /\ genSent' = Append(genSent, genJob[1])
    /\ genJob' = None
    /\ genPc' = IF genThen = "close" THEN "done" ELSE "range"
    /\ genClosed' = (genThen = "close")
    /\ chanLog' = LET sent == LogSend(chanLog, GeneratorCh, Generator, genClosed)
                       gen == IF genThen = "close"
                              THEN LogClose(sent, GeneratorCh, Generator) ELSE sent
                   IN  IF FilterVerdict(opts, genJob[1]) = "panic"
                       THEN LogClose(gen, FinalCh, Filter)
                       ELSE gen
    /\ UNCHANGED <<opts, targetIsDir, backend, cpType, cpErr, probes, genThen, cPc, cSrc, cJob,
                   cThen, dPc, dIdx, dJob, clients, listed, listEnded, cSent, cClosed, dSent,
                   dClosed, delivered, cancelled, consumerOn>>
    /\ UNCHANGED pathVars

\* copyURLsCh is closed: the filter's loop ends and finalCopyURLsCh closes.
FilterEnd ==
    /\ crashed = "no"
    /\ filPc = "recv"
    /\ genClosed
    /\ filPc' = "done"
    /\ finalClosed' = TRUE
    /\ chanLog' = LogClose(chanLog, FinalCh, Filter)
    /\ UNCHANGED <<opts, targetIsDir, backend, cpType, cpErr, probes, genPc, genJob, genThen, filJob,
                   cPc, cSrc, cJob, cThen, dPc, dIdx, dJob, clients, listed, listEnded, cSent,
                   cClosed, dSent, dClosed, genSent, genClosed, delivered, crashed,
                   cancelled, consumerOn>>
    /\ UNCHANGED pathVars

\* The caller receives the Job the filter is sending on finalCopyURLsCh.
ConsumerRecv ==
    /\ crashed = "no"
    /\ consumerOn
    /\ filPc = "send"
    /\ delivered' = Append(delivered, filJob[1])
    /\ filJob' = None
    /\ filPc' = "recv"
    /\ chanLog' = LogSend(chanLog, FinalCh, Filter, finalClosed)
    /\ UNCHANGED <<opts, targetIsDir, backend, cpType, cpErr, probes, genPc, genJob, genThen, cPc,
                   cSrc, cJob, cThen, dPc, dIdx, dJob, clients, listed, listEnded, cSent, cClosed,
                   dSent, dClosed, genSent, genClosed, finalClosed, crashed, cancelled,
                   consumerOn>>
    /\ UNCHANGED pathVars

\* The context is cancelled.
Cancel ==
    /\ crashed = "no"
    /\ ~cancelled
    /\ ~finalClosed
    /\ cancelled' = TRUE
    /\ UNCHANGED <<opts, targetIsDir, backend, chanLog, cpType, cpErr, probes, genPc, genJob, genThen, filPc,
                   filJob, cPc, cSrc, cJob, cThen, dPc, dIdx, dJob, clients, listed, listEnded, cSent,
                   cClosed, dSent, dClosed, genSent, genClosed, delivered, finalClosed,
                   crashed, consumerOn>>
    /\ UNCHANGED pathVars

\* After cancelling, the caller stops receiving from the output channel.
ConsumerStop ==
    /\ crashed = "no"
    /\ cancelled
    /\ consumerOn
    /\ ~finalClosed
    /\ consumerOn' = FALSE
    /\ UNCHANGED <<opts, targetIsDir, backend, chanLog, cpType, cpErr, probes, genPc, genJob, genThen, filPc,
                   filJob, cPc, cSrc, cJob, cThen, dPc, dIdx, dJob, clients, listed, listEnded, cSent,
                   cClosed, dSent, dClosed, genSent, genClosed, delivered, finalClosed,
                   crashed, cancelled>>
    /\ UNCHANGED pathVars

\* A step of one of the pipeline's own tasks.
PipelineStep ==
    \/ GenStart
    \/ GenRecvC
    \/ GenRecvD
    \/ GenRangeEnd
    \/ TypeCStart
    \/ TypeCListRecord
    \/ TypeCListEnd
    \/ DNext
    \/ DRecvC
    \/ DRangeEnd
    \/ FilterRecv
    \/ FilterEnd

\* The pipeline with a caller that keeps receiving until the channel closes.
Next ==
    \/ PipelineStep
    \/ ConsumerRecv

Spec == Init /\ [][Next]_vars

\* The pipeline with a caller that may cancel the context and then stop
\* receiving.
CancelNext ==
    \/ PipelineStep
    \/ ConsumerRecv
    \/ Cancel
    \/ ConsumerStop

CancelSpec == Init /\ [][CancelNext]_vars

----------------------------------------------------------------------------
(* The path rewrite of Type C on drawn paths *)

PathAlphabet == {"a", "b", "/"}

\* All paths over the alphabet of at most n characters.
PathsUpTo(n) == UNION {[1..k -> PathAlphabet] : k \in 0..n}

PathTargets == {<<"t">>, <<"t", "/">>}

PipelineIdle ==
    /\ opts = [sourceURLs |-> <<>>, targetURL |-> Tgt(<<>>), isRecursive |-> FALSE,
               olderThan |-> "", newerThan |-> "", versionID |-> ""]
    /\ targetIsDir = FALSE
    /\ backend = [size |-> 0, kinds |-> {}]
    /\ cpType = "none"
    /\ cpErr = FALSE
    /\ probes = <<>>
    /\ genPc = "idle"
    /\ genJob = None
    /\ genThen = "range"
    /\ filPc = "idle"
    /\ filJob = None
    /\ cPc = "idle"
    /\ cSrc = 0
    /\ cJob = None
    /\ cThen = "continue"
    /\ dPc = "idle"
    /\ dIdx = 0
    /\ dJob = None
    /\ clients = <<>>
    /\ listed = <<>>
    /\ listEnded = <<>>
    /\ cSent = <<>>
    /\ cClosed = <<>>
    /\ dSent = <<>>
    /\ dClosed = FALSE
    /\ genSent = <<>>
    /\ genClosed = FALSE
    /\ delivered = <<>>
    /\ finalClosed = FALSE
    /\ crashed = "no"
    /\ cancelled = FALSE
    /\ consumerOn = TRUE
    /\ chanLog = <<>>

PathInit ==
    /\ PipelineIdle
    /\ pSource \in PathsUpTo(MaxPathLen)
    /\ pRecord \in PathsUpTo(MaxPathLen)
    /\ pTarget \in PathTargets
    /\ pResult = None
    /\ pStat = None
    /\ pOp = "none"
    /\ pStatted = <<>>

\* makeCopyContentTypeC is applied to a regular-file record of the drawn
\* path, listed under the drawn source argument.
ApplyTypeC ==
    /\ pResult = None
    /\ pResult' = Some(makeCopyContentTypeC(SourceAliasName, pSource,
                           Content("file", "mid", pRecord, "", 1, 1),
                           TargetAliasName, pTarget))
    /\ UNCHANGED <<pSource, pRecord, pTarget, pStat, pOp, pStatted>>
    /\ UNCHANGED pipeVars

PathNext == ApplyTypeC

PathSpec == PathInit /\ [][PathNext]_vars

----------------------------------------------------------------------------
(* Target paths named by the properties below *)

\* "bucket/dir/a.txt"
P_bucket_dir_a_txt ==
    <<"b", "u", "c", "k", "e", "t", "/", "d", "i", "r", "/", "a", ".", "t", "x", "t">>

\* "bucket/dir/sub/b.txt"
P_bucket_dir_sub_b_txt ==
    <<"b", "u", "c", "k", "e", "t", "/", "d", "i", "r", "/", "s", "u", "b", "/", "b", ".", "t", "x", "t">>

\* "bucket/a.txt"
P_bucket_a_txt ==
    <<"b", "u", "c", "k", "e", "t", "/", "a", ".", "t", "x", "t">>

\* "bucket/sub/b.txt"
P_bucket_sub_b_txt ==
    <<"b", "u", "c", "k", "e", "t", "/", "s", "u", "b", "/", "b", ".", "t", "x", "t">>

\* "bucket2/out/dir1/sub/file.txt"
P_bucket2_out_dir1_sub_file_txt ==
    <<"b", "u", "c", "k", "e", "t", "2", "/", "o", "u", "t", "/", "d", "i", "r", "1", "/",
      "s", "u", "b", "/", "f", "i", "l", "e", ".", "t", "x", "t">>

\* "bucket/f1.txt"
P_bucket_f1_txt ==
    <<"b", "u", "c", "k", "e", "t", "/", "f", "1", ".", "t", "x", "t">>

\* "bucket/f2.txt"
P_bucket_f2_txt ==
    <<"b", "u", "c", "k", "e", "t", "/", "f", "2", ".", "t", "x", "t">>

----------------------------------------------------------------------------
(* Properties *)

ErrorJobsOf(jobs) == SelectSeq(jobs, IsErrorJob)

SuccessJobsOf(jobs) == SelectSeq(jobs, IsSuccessJob)

\* C1: every error Job the filter task receives from the generator is
\* forwarded to the caller-visible channel (delivered, or held by the filter
\* for its send), whatever the older-than and newer-than bounds are: none is
\* dropped and none stops the filter task.
C1_ErrorJobsForwarded ==
    /\ crashed # "panic"
    /\ ErrorJobsOf(genSent) = ErrorJobsOf(delivered \o filJob)

\* The invocation of scenario 2 once the Type C expander has closed its
\* channel: recursive copy of dir/ into bucket/, the listing having yielded
\* the regular files dir/a.txt and dir/sub/b.txt.
C2_Scenario ==
    /\ opts.sourceURLs = <<Src(P_dir_slash)>>
    /\ opts.targetURL = Tgt(P_bucket_slash)
    /\ opts.isRecursive
    /\ cpType = copyURLsTypeC
    /\ cClosed[1]
    /\ Len(listed[1]) = 2
    /\ \A k \in 1..2 : ~listed[1][k].Err /\ listed[1][k].Type = "file"
    /\ listed[1][1].Path = P_dir_a_txt
    /\ listed[1][2].Path = P_dir_sub_b_txt

\* C2 as claimed: in scenario 2 the expander produces exactly two success
\* Jobs, with targets bucket/dir/a.txt and bucket/dir/sub/b.txt.
C2_Original ==
    C2_Scenario =>
        /\ Len(cSent[1]) = 2
        /\ \A k \in 1..2 : IsSuccessJob(cSent[1][k])
        /\ TargetPath(cSent[1][1]) = P_bucket_dir_a_txt
        /\ TargetPath(cSent[1][2]) = P_bucket_dir_sub_b_txt

\* C2 as amended: in scenario 2 the expander produces exactly two success
\* Jobs, with targets bucket/a.txt and bucket/sub/b.txt: the part of the
\* source argument before its last separator (dir) is stripped, so the source
\* directory's own name is not kept under the target.
C2_Amended ==
    C2_Scenario =>
        /\ Len(cSent[1]) = 2
        /\ \A k \in 1..2 : IsSuccessJob(cSent[1][k])
        /\ TargetPath(cSent[1][1]) = P_bucket_a_txt
        /\ TargetPath(cSent[1][2]) = P_bucket_sub_b_txt

\* Scenario 2 has run to the end of its listing, and the caller has received
\* both Jobs.
C2_Witness == C2_Scenario /\ Len(delivered) = 2

\* C3: for a regular-file record listed under a source argument whose last
\* separator is at index > 1, the Job's target path is the target path joined
\* with the record's path minus the part of the source path before that
\* separator when the record's path starts with it, and joined with the
\* record's full path otherwise; bucket/dir1 with bucket/dir1/sub/file.txt
\* into bucket2/out gives bucket2/out/dir1/sub/file.txt.
C3_PrefixStripped ==
    /\ pResult # None =>
          LET idx == LastIndex(pSource, "/")
              prefix == SubSeq(pSource, 1, idx)
          IN  idx > 1 =>
                 /\ IsSuccessJob(pResult[1])
                 /\ TargetPath(pResult[1]) =
                       urlJoinPath(pTarget,
                           IF HasPrefix(pRecord, prefix)
                           THEN SubSeq(pRecord, idx + 1, Len(pRecord))
                           ELSE pRecord)
    /\ TargetPath(makeCopyContentTypeC(SourceAliasName, P_bucket_dir1,
           Content("file", "mid", P_bucket_dir1_sub_file_txt, "", 1, 1),
           TargetAliasName, P_bucket2_out)) = P_bucket2_out_dir1_sub_file_txt

\* The rewrite has been applied to a record that shares the prefix of a
\* source argument whose last separator is at index > 1, and something is
\* left of the record's path after stripping.
C3_Witness ==
    /\ pResult # None
    /\ LastIndex(pSource, "/") > 1
    /\ HasPrefix(pRecord, SubSeq(pSource, 1, LastIndex(pSource, "/")))
    /\ Len(pRecord) > LastIndex(pSource, "/") + 1

\* C4: for a single source whose probe succeeds, the classification is C
\* when the source is a directory or the recursion flag is set, else B when
\* the target exists as a directory, else A; no error is returned.
C4_SingleSourceClassification ==
    (cpType # "none" /\ NumSources = 1 /\ probes # <<>> /\ ~probes[1].err) =>
        /\ ~cpErr
        /\ cpType = IF probes[1].Type = "dir" \/ opts.isRecursive THEN copyURLsTypeC
                    ELSE IF targetIsDir THEN copyURLsTypeB
                    ELSE copyURLsTypeA

\* Recursion has won over a file source and an existing-directory target.
C4_Witness ==
    /\ NumSources = 1
    /\ probes # <<>>
    /\ ~probes[1].err
    /\ probes[1].Type = "file"
    /\ opts.isRecursive
    /\ targetIsDir
    /\ cpType = copyURLsTypeC

\* C5: for more than one source, the classification is D exactly when the
\* target exists as a directory, and otherwise Invalid with a non-nil error;
\* no source is probed.
C5_MultiSourceClassification ==
    (cpType # "none" /\ NumSources > 1) =>
        /\ (cpType = copyURLsTypeD) <=> targetIsDir
        /\ targetIsDir => ~cpErr
        /\ ~targetIsDir => (cpType = copyURLsTypeInvalid /\ cpErr)
        /\ probes = <<>>

\* Several sources have been classified Invalid against a target that is not
\* a directory.
C5_Witness ==
    /\ NumSources > 1
    /\ ~targetIsDir
    /\ cpType = copyURLsTypeInvalid
    /\ cpErr

\* Classification has failed: the probe of the single source failed, or there
\* are several sources and the target is not an existing directory.
ClassificationFailed ==
    /\ cpType # "none"
    /\ IF NumSources = 1 THEN probes # <<>> /\ probes[1].err
       ELSE NumSources > 1 /\ ~targetIsDir

\* C6: when classification fails, no Job, success or error, is ever sent on
\* copyURLsCh or delivered on the caller-visible channel.
C6_NoJobAfterFailedClassification ==
    ClassificationFailed =>
        /\ genJob = None
        /\ genSent = <<>>
        /\ filJob = None
        /\ delivered = <<>>

\* Classification has failed on a single source's probe and the invocation
\* was aborted.
C6_Witness ==
    /\ ClassificationFailed
    /\ NumSources = 1
    /\ crashed = "fatal"

\* The listing entry (or stat) a Job stems from: source argument and place.
JobKey(j) ==
    IF IsErrorJob(j) THEN <<j.Error[1].src, j.Error[1].idx>>
    ELSE <<j.SourceContent[1].src, j.SourceContent[1].idx>>

KeyBefore(a, b) == a[1] < b[1] \/ (a[1] = b[1] /\ a[2] < b[2])

\* The Jobs are in source-argument order and, within one source argument, in
\* listing order.
InOrder(jobs) ==
    \A p, q \in 1..Len(jobs) : p < q => KeyBefore(JobKey(jobs[p]), JobKey(jobs[q]))

\* Scenario 3 run to the end: f1.txt and f2.txt into the existing directory
\* bucket, each listing yielding its one regular file, no time bound.
C7_Scenario3 ==
    /\ opts.sourceURLs = <<Src(P_f1_txt), Src(P_f2_txt)>>
    /\ opts.targetURL = Tgt(P_bucket)
    /\ opts.olderThan = ""
    /\ opts.newerThan = ""
    /\ cpType = copyURLsTypeD
    /\ finalClosed
    /\ \A i \in 1..2 :
          Len(listed[i]) = 1 /\ ~listed[i][1].Err /\ listed[i][1].Type = "file"

\* C7: under Type D, on each of the three channels (Type D's, copyURLsCh,
\* the caller's) the Jobs of source argument i come before those of source
\* argument i+1 and the Jobs of one source argument come in listing order;
\* the generator forwards the sequencer's stream as it is; scenario 3 gives
\* bucket/f1.txt then bucket/f2.txt.
C7_TypeDOrder ==
    cpType = copyURLsTypeD =>
        /\ InOrder(dSent \o dJob)
        /\ InOrder(genSent \o genJob)
        /\ InOrder(delivered \o filJob)
        /\ dSent = genSent \o genJob
        /\ C7_Scenario3 =>
              /\ Len(delivered) = 2
              /\ TargetPath(delivered[1]) = P_bucket_f1_txt
              /\ TargetPath(delivered[2]) = P_bucket_f2_txt

\* Under Type D the caller has received two Jobs of the first source argument
\* and then one of the second.
C7_Witness ==
    /\ cpType = copyURLsTypeD
    /\ Len(delivered) = 3
    /\ JobKey(delivered[1])[1] = 1
    /\ JobKey(delivered[2])[1] = 1
    /\ JobKey(delivered[3])[1] = 2

\* The records of a listing for which the expander sends a Job.
EmittingRecord(r) == r.Err \/ r.Type = "file"

FailingRecord(r) == r.Err

RegularRecord(r) == ~r.Err /\ r.Type = "file"

\* What the expander of source argument i has put on its channel, the Job it
\* is sending included.
ExpanderStream(i) == cSent[i] \o (IF cSrc = i THEN cJob ELSE <<>>)

\* C8: the stream of a Type C expander whose client was constructed carries
\* exactly one Job per failing record and per regular-file record its listing
\* has yielded, an error Job for the former and a success Job built from the
\* record for the latter, in listing order, and none for a non-regular
\* record; the expander closes its channel only once the listing's stream
\* has closed, never because of a failing record.
C8_OneJobPerRecord ==
    \A i \in 1..NumSources :
        clients[i] = "ok" =>
            LET recs == SelectSeq(listed[i], EmittingRecord)
                out == ExpanderStream(i)
            IN  /\ Len(out) = Len(recs)
                /\ \A k \in 1..Len(recs) :
                      /\ IsErrorJob(out[k]) <=> recs[k].Err
                      /\ JobKey(out[k]) = <<i, recs[k].idx>>
                      /\ IsSuccessJob(out[k]) => out[k].SourceContent[1] = recs[k]
                /\ Len(ErrorJobsOf(out)) = Len(SelectSeq(listed[i], FailingRecord))
                /\ Len(SuccessJobsOf(out)) = Len(SelectSeq(listed[i], RegularRecord))
                /\ cClosed[i] => (listEnded[i] /\ out = cSent[i])

\* An expander has consumed a listing of a failing record, a directory and a
\* regular file, in this order, and has closed its channel after two Jobs.
C8_Witness ==
    \E i \in 1..NumSources :
        /\ clients[i] = "ok"
        /\ cClosed[i]
        /\ Len(listed[i]) = 3
        /\ listed[i][1].Err
        /\ ~listed[i][2].Err /\ listed[i][2].Type = "dir"
        /\ ~listed[i][3].Err /\ listed[i][3].Type = "file"
        /\ Len(cSent[i]) = 2

\* Source argument i has failed: its client could not be constructed, or its
\* listing failed (one failing record, then the end of the stream).
SourceFailed(i) ==
    \/ clients[i] = "fail"
    \/ /\ clients[i] = "ok"
       /\ listEnded[i]
       /\ Len(listed[i]) = 1
       /\ listed[i][1].Err

\* The invocation is over: the caller-visible channel is closed, or the
\* process has died.
PipelineStopped == finalClosed \/ crashed # "no"

\* C9: under Type D, once the invocation is over, a source argument that
\* failed has had exactly one error Job emitted on the Type D channel, and
\* every later source argument has been expanded to the end of its listing
\* and has produced its Jobs.
C9_FailedSourceIsolated ==
    (cpType = copyURLsTypeD /\ PipelineStopped) =>
        \A i \in 1..NumSources :
            SourceFailed(i) =>
                LET ErrorOfI(j) == IsErrorJob(j) /\ JobKey(j)[1] = i
                IN  /\ Len(SelectSeq(dSent \o dJob, ErrorOfI)) = 1
                    /\ \A j \in (i + 1)..NumSources :
                          /\ clients[j] # "none"
                          /\ cClosed[j]
                          /\ clients[j] = "ok" =>
                                Len(cSent[j]) = Len(SelectSeq(listed[j], EmittingRecord))

\* Every task of the pipeline has returned and every channel is closed.
PipelineTerminated ==
    /\ genPc = "done"
    /\ filPc = "done"
    /\ cPc \in {"idle", "done"}
    /\ dPc \in {"idle", "done"}
    /\ genClosed
    /\ finalClosed
    /\ \A i \in 1..NumSources : clients[i] # "none" => cClosed[i]
    /\ cpType = copyURLsTypeD => dClosed

\* C10: once the context is cancelled, the pipeline never comes to rest with
\* a task still blocked: either every task has returned and every channel is
\* closed, or some task (or the caller, while it still receives) can take a
\* step.
C10_CancelUnwinds ==
    (cancelled /\ crashed = "no") =>
        (PipelineTerminated \/ ENABLED (PipelineStep \/ ConsumerRecv))
----------------------------------------------------------------------------
(* Termination under fair scheduling *)

\* A step of a task that does not wait for the backend to yield a record:
\* every step of the pipeline's tasks but the arrival of a listing record.
TaskStep ==
    \/ GenStart
    \/ GenRecvC
    \/ GenRecvD
    \/ GenRangeEnd
    \/ TypeCStart
    \/ TypeCListEnd
    \/ DNext
    \/ DRecvC
    \/ DRangeEnd
    \/ FilterRecv
    \/ FilterEnd

\* The pipeline under the scheduling the Go runtime gives: a task that can
\* take a step eventually takes one, a listing is finite (its stream closes
\* once the expander has waited long enough for a record), and the caller
\* keeps receiving while a Job is offered to it.  The backend is not
\* obliged to yield any record.
FairSpec ==
    /\ Init
    /\ [][Next]_vars
    /\ WF_vars(TaskStep)
    /\ WF_vars(ConsumerRecv)

ValidClassification ==
    cpType \in {copyURLsTypeA, copyURLsTypeB, copyURLsTypeC, copyURLsTypeD}

\* A Job the filter's two tests let through, and one they drop.
Forwarded(j) == FilterVerdict(opts, j) = "forward"

Dropped(j) == FilterVerdict(opts, j) = "skip"

\* The caller-visible channel is closed only after the generator has closed
\* copyURLsCh and the filter has forwarded or dropped every Job it received.
ClosedAfterBothStages ==
    finalClosed =>
        /\ genClosed
        /\ genPc = "done"
        /\ genJob = None
        /\ filJob = None
        /\ delivered = SelectSeq(genSent, Forwarded)
        /\ \A k \in 1..Len(genSent) : Forwarded(genSent[k]) \/ Dropped(genSent[k])

\* C11: for a valid classification (A, B, C or D), with finite listings and
\* a caller that keeps receiving, the caller-visible channel is eventually
\* closed, and it is closed only after the generator has closed its channel
\* and the filter has forwarded or dropped every Job it received.
C11_EventuallyClosed ==
    /\ []ClosedAfterBothStages
    /\ ValidClassification ~> finalClosed
----------------------------------------------------------------------------
(* The single-source expanders (Type A, Type B) on drawn paths *)

\* Target paths drawn for the single-source expanders: "t", "t/", "d/e",
\* "bucket/".
ExpanderTargets == {<<"t">>, <<"t", "/">>, P_d_e, P_bucket_slash}

\* Source paths drawn: every path of the alphabet with at least one
\* character, and the sources of the documented scenarios.
ExpanderSources ==
    (PathsUpTo(MaxPathLen) \ {<<>>}) \cup {P_a_b_c_txt, P_file_txt}

ExpanderInit ==
    /\ PipelineIdle
    /\ pSource \in ExpanderSources
    /\ pRecord = <<>>
    /\ pTarget \in ExpanderTargets
    /\ pResult = None
    /\ pStat \in {Some(st) : st \in StatOutcomes}
    /\ pOp = "none"
    /\ pStatted = <<>>

\* prepareCopyURLsTypeA is called on the drawn source and target; url2Stat
\* gives the drawn answer.
ApplyTypeA ==
    /\ pOp = "none"
    /\ pOp' = "A"
    /\ pResult' = Some(prepareCopyURLsTypeA(Src(pSource), "v1", Tgt(pTarget), pStat[1]))
    /\ pStatted' = url2StatCallsTypeA(Src(pSource), Tgt(pTarget))
    /\ UNCHANGED <<pSource, pRecord, pTarget, pStat>>
    /\ UNCHANGED pipeVars

\* prepareCopyURLsTypeB is called on the drawn source and target.
ApplyTypeB ==
    /\ pOp = "none"
    /\ pOp' = "B"
    /\ pResult' = Some(prepareCopyURLsTypeB(Src(pSource), "v1", Tgt(pTarget), pStat[1]))
    /\ pStatted' = url2StatCallsTypeB(Src(pSource), Tgt(pTarget))
    /\ UNCHANGED <<pSource, pRecord, pTarget, pStat>>
    /\ UNCHANGED pipeVars

ExpanderNext ==
    \/ ApplyTypeA
    \/ ApplyTypeB

ExpanderSpec == ExpanderInit /\ [][ExpanderNext]_vars

\* Index of the last character of p that is not a separator (0 if none).
LastNameChar(p) ==
    LET I == {i \in 1..Len(p) : p[i] # "/"}
    IN  IF I = {} THEN 0 ELSE CHOOSE i \in I : \A j \in I : j <= i

\* The path without its trailing separators.
WithoutTrailingSeparators(p) == SubSeq(p, 1, LastNameChar(p))

\* The base name of a path: what follows the last separator, trailing
\* separators aside.
BaseName(p) ==
    LET q == WithoutTrailingSeparators(p)
    IN  SubSeq(q, LastIndex(q, "/") + 2, Len(q))

\* "d/e/c.txt"
P_d_e_c_txt == <<"d", "/", "e", "/", "c", ".", "t", "x", "t">>

\* "bucket/file.txt"
P_bucket_file_txt ==
    <<"b", "u", "c", "k", "e", "t", "/", "f", "i", "l", "e", ".", "t", "x", "t">>

\* The call of the Type B expander on a source that is a regular file and
\* has a name.
TypeBOnFile ==
    /\ pOp = "B"
    /\ ~pStat[1].err
    /\ pStat[1].Type = "file"
    /\ LastNameChar(pSource) > 0

\* C12: for every file source and target directory, the Type B expander
\* returns exactly one Job, a success Job whose target path is the target
\* directory's path joined by one forward slash with the base name of the
\* source path; a/b/c.txt into d/e gives d/e/c.txt and file.txt into bucket/
\* gives bucket/file.txt.
C12_TypeBTarget ==
    TypeBOnFile =>
        /\ Len(pResult) = 1
        /\ IsSuccessJob(pResult[1])
        /\ TargetPath(pResult[1]) =
              WithoutTrailingSeparators(pTarget) \o <<"/">> \o BaseName(pSource)
        /\ (pSource = P_a_b_c_txt /\ pTarget = P_d_e) =>
              TargetPath(pResult[1]) = P_d_e_c_txt
        /\ (pSource = P_file_txt /\ pTarget = P_bucket_slash) =>
              TargetPath(pResult[1]) = P_bucket_file_txt

\* The Type B expander has been applied to a nested file source (a
\* separator before its base name) and a target written with a trailing
\* separator.
C12_Witness ==
    /\ TypeBOnFile
    /\ LastIndex(WithoutTrailingSeparators(pSource), "/") >= 1
    /\ pTarget = P_bucket_slash
    /\ pResult # None
\* C13: the Type A expander returns an error Job when the source stat
\* fails, the invalid-source error Job when the stat succeeds but the source
\* is not a regular file (a directory included), and otherwise a success Job
\* whose target location is the alias-stripped target path unchanged; in no
\* case does it stat the target.
C13_TypeAOutcome ==
    pOp = "A" =>
        /\ Len(pResult) = 1
        /\ pStat[1].err =>
              /\ IsErrorJob(pResult[1])
              /\ pResult[1].Error[1].kind = "stat"
        /\ (~pStat[1].err /\ pStat[1].Type # "file") =>
              /\ IsErrorJob(pResult[1])
              /\ pResult[1].Error[1].kind = "invalidSource"
        /\ (~pStat[1].err /\ pStat[1].Type = "file") =>
              /\ IsSuccessJob(pResult[1])
              /\ TargetPath(pResult[1]) = pTarget
              /\ pResult[1].TargetAlias = TargetAliasName
        /\ \A k \in 1..Len(pStatted) : pStatted[k] # Tgt(pTarget)

\* The Type A expander has been applied to a source that exists and is a
\* directory, and has answered with the invalid-source error Job.
C13_Witness ==
    /\ pOp = "A"
    /\ ~pStat[1].err
    /\ pStat[1].Type = "dir"
    /\ pResult # None
    /\ IsErrorJob(pResult[1])
    /\ Len(pStatted) = 1
\* The two shapes of a Job: an error and nothing else, or no error and the
\* whole resolved tuple.
ErrorOnly(j) ==
    /\ j.Error # None
    /\ j.SourceContent = None
    /\ j.TargetContent = None

ResolvedTuple(j) ==
    /\ j.Error = None
    /\ j.SourceAlias # ""
    /\ j.SourceContent # None
    /\ j.TargetAlias # ""
    /\ j.TargetContent # None

\* The Jobs that have reached the caller-visible channel: those the caller
\* has received and the one the filter is sending.
OnFinalChannel == delivered \o filJob

\* C14: every Job that reaches the caller-visible channel, under any
\* classification and any sequence of listing records, has exactly one of
\* the two populated: the error is set and source content and target content
\* are both absent, or the error is absent and source alias, source content,
\* target alias and target content are all present.
C14_ExactlyOnePopulated ==
    \A k \in 1..Len(OnFinalChannel) :
        /\ ErrorOnly(OnFinalChannel[k]) \/ ResolvedTuple(OnFinalChannel[k])
        /\ ~(ErrorOnly(OnFinalChannel[k]) /\ ResolvedTuple(OnFinalChannel[k]))

\* The caller has received an error Job and a success Job of one listing.
C14_Witness ==
    /\ Len(delivered) >= 2
    /\ \E k \in 1..Len(delivered) : ErrorOnly(delivered[k])
    /\ \E k \in 1..Len(delivered) : ResolvedTuple(delivered[k])
\* C15: the core never terminates the process itself: on every error, the
\* classification error included, control stays with the caller; neither
\* the abort of fatalIf nor a runtime panic ever happens.
C15_CoreNeverTerminates == crashed = "no"
----------------------------------------------------------------------------
(* Backpressure: listings longer than the pipeline *)

\* The tasks a Job passes through on its way to the caller, by
\* classification: each holds at most the one Job it is sending.
PipelineStages(type) ==
    IF type = copyURLsTypeD THEN {"expander", "sequencer", "generator", "filter"}
    ELSE IF type = copyURLsTypeC THEN {"expander", "generator", "filter"}
    ELSE {"generator", "filter"}

\* A total listing length that exceeds the number of stages of the longest
\* pipeline.
LongListing == MaxRecords + 2

\* Recursive copies (one source: Type C; two sources: Type D) from a backend
\* whose listings hold more regular files than the pipeline has stages, some
\* of them older than the older-than bound when one is set.
LongInit ==
    /\ \E inv \in { [sourceURLs |-> <<Src(P_dir_slash)>>, targetURL |-> Tgt(P_bucket_slash)],
                    [sourceURLs |-> <<Src(P_f1_txt), Src(P_f2_txt)>>, targetURL |-> Tgt(P_bucket)] },
          older \in BoundStrings :
          opts = [sourceURLs |-> inv.sourceURLs, targetURL |-> inv.targetURL,
                  isRecursive |-> TRUE, olderThan |-> older, newerThan |-> "",
                  versionID |-> "v1"]
    /\ targetIsDir = TRUE
    /\ backend = [size |-> LongListing, kinds |-> {"old", "mid"}]
    /\ Started

\* The caller receives whenever it likes: it may leave a Job offered to it
\* unreceived for any number of steps of the other tasks.
LongSpec == LongInit /\ [][Next]_vars

\* The Jobs the expanders have built so far.
Produced == SumLen(cSent) + Len(cJob)

\* The Jobs taken from the listing that the caller has not received and the
\* filter has not dropped.
InFlight == Produced - Len(delivered) - Len(SelectSeq(genSent, Dropped))

\* C16: in every reachable state the number of Jobs taken from the listing
\* and not yet received by the caller is at most one per pipeline stage,
\* whatever the length of the listing and however slow the caller is.
C16_BoundedInFlight ==
    /\ InFlight <= Cardinality(PipelineStages(cpType))
    /\ Len(cJob) <= 1 /\ Len(dJob) <= 1 /\ Len(genJob) <= 1 /\ Len(filJob) <= 1

\* Under Type D every stage holds a Job, the caller has received nothing,
\* and the backend still has records that the blocked expander does not
\* take.
C16_Witness ==
    /\ cpType = copyURLsTypeD
    /\ InFlight = Cardinality(PipelineStages(copyURLsTypeD))
    /\ cJob # None /\ dJob # None /\ genJob # None /\ filJob # None
    /\ delivered = <<>>
    /\ SumLen(listed) < backend.size
    /\ ~ENABLED TypeCListRecord
\* The target path makeCopyContentTypeC gives a regular-file record.
TypeCTarget(source, record, target) ==
    TargetPath(makeCopyContentTypeC(SourceAliasName, source,
        Content("file", "mid", record, "", 1, 1), TargetAliasName, target))

\* C17: in the Type C rewrite, when the last separator of the source
\* argument's path is at index 0 or 1, or the path has no separator, nothing
\* is stripped and the record's full path is joined onto the target;
\* something is stripped only when that index is 2 or more.  Source a/b
\* keeps a/b/... under the target, source ab/c keeps only /c/... .
C17_NoStripUpToIndex1 ==
    /\ pResult # None =>
          /\ LastIndex(pSource, "/") <= 1 =>
                TargetPath(pResult[1]) = urlJoinPath(pTarget, pRecord)
          /\ TargetPath(pResult[1]) # urlJoinPath(pTarget, pRecord) =>
                LastIndex(pSource, "/") >= 2
    /\ TypeCTarget(<<"a", "/", "b">>, <<"a", "/", "b", "/", "x">>, <<"t">>)
          = <<"t", "/", "a", "/", "b", "/", "x">>
    /\ TypeCTarget(<<"a", "b", "/", "c">>, <<"a", "b", "/", "c", "/", "x">>, <<"t">>)
          = <<"t", "/", "c", "/", "x">>

\* The rewrite has been applied under a source argument whose last separator
\* is at index 1 to a record that starts with the part before that
\* separator, and the record's path was kept whole.
C17_Witness ==
    /\ pResult # None
    /\ LastIndex(pSource, "/") = 1
    /\ Len(pRecord) > 2
    /\ HasPrefix(pRecord, SubSeq(pSource, 1, 1))
    /\ TargetPath(pResult[1]) = urlJoinPath(pTarget, pRecord)
\* A success Job the older-than bound rejects, and one the newer-than bound
\* rejects; an empty bound string rejects nothing.
RejectedByOlderThan(j) ==
    opts.olderThan # "" /\ isOlder(j.SourceContent[1].Time, opts.olderThan)

RejectedByNewerThan(j) ==
    opts.newerThan # "" /\ isNewer(j.SourceContent[1].Time, opts.newerThan)

KeptSuccessJob(j) ==
    IsSuccessJob(j) /\ ~RejectedByOlderThan(j) /\ ~RejectedByNewerThan(j)

PassesOlderThan(j) == IsSuccessJob(j) /\ ~RejectedByOlderThan(j)

PassesNewerThan(j) == IsSuccessJob(j) /\ ~RejectedByNewerThan(j)

\* C18: for every classification the success Jobs that reach the caller are
\* exactly the success Jobs of the raw sequence (copyURLsCh) that neither
\* bound rejects, in the same relative order; an empty bound rejects nothing,
\* and with both bounds empty every success Job is delivered.
C18_FilterSemantics ==
    /\ SuccessJobsOf(delivered \o filJob) = SelectSeq(genSent, KeptSuccessJob)
    /\ (opts.olderThan = "" /\ opts.newerThan = "") =>
          SuccessJobsOf(delivered \o filJob) = SuccessJobsOf(genSent)
    /\ opts.olderThan = "" =>
          SuccessJobsOf(delivered \o filJob) = SelectSeq(genSent, PassesNewerThan)
    /\ opts.newerThan = "" =>
          SuccessJobsOf(delivered \o filJob) = SelectSeq(genSent, PassesOlderThan)

\* With both bounds set, the raw sequence was an old, a recent and a new
\* file, and the caller has received the recent one only.
C18_Witness ==
    /\ opts.olderThan # ""
    /\ opts.newerThan # ""
    /\ finalClosed
    /\ Len(genSent) = 3
    /\ \A k \in 1..3 : IsSuccessJob(genSent[k])
    /\ {genSent[k].SourceContent[1].Time : k \in 1..3} = Times
    /\ Len(delivered) = 1
    /\ delivered[1].SourceContent[1].Time = "mid"
\* The Job of the dispatcher's default branch.
IsInvalidArgumentJob(j) == IsErrorJob(j) /\ j.Error[1].kind = "invalidArgument"

\* C19: guessCopyURLType returns the Invalid classification if and only if
\* it returns a non-nil error, for every source count (zero included),
\* recursion flag and probe outcome; so the default branch of the switch in
\* prepareCopyURLs, which sends an invalid-argument error Job, is never
\* reached with a nil classification error.
C19_InvalidIffError ==
    cpType # "none" =>
        /\ (cpType = copyURLsTypeInvalid) <=> cpErr
        /\ \A k \in 1..Len(genSent \o genJob) :
              IsInvalidArgumentJob((genSent \o genJob)[k]) => cpErr

\* An invocation without any source has been classified: Invalid with an
\* error against a target that is not a directory.
C19_Witness ==
    /\ NumSources = 0
    /\ cpType = copyURLsTypeInvalid
    /\ cpErr
    /\ ~targetIsDir
----------------------------------------------------------------------------
(* Channel discipline *)

\* The one task that sends on a channel: the task that made it.
SenderOf(ch) ==
    IF ch = SequencerCh THEN Sequencer
    ELSE IF ch = GeneratorCh THEN Generator
    ELSE IF ch = FinalCh THEN Filter
    ELSE Expander(ch[2])

\* Whether the channel is closed, as the tasks see it.
IsClosed(ch) ==
    IF ch = SequencerCh THEN dClosed
    ELSE IF ch = GeneratorCh THEN genClosed
    ELSE IF ch = FinalCh THEN finalClosed
    ELSE cClosed[ch[2]]

\* The channels that have been made: those of prepareCopyURLs, Type D's under
\* classification D, and one per expander started.
Made(ch) ==
    IF ch = SequencerCh THEN cpType = copyURLsTypeD
    ELSE IF ch \in {GeneratorCh, FinalCh} THEN TRUE
    ELSE clients[ch[2]] # "none"

\* prepareCopyURLs has run to its end in a live process.
RanToEnd == filPc = "done" /\ crashed = "no"

\* C20: each channel of the pipeline has exactly one sending task and is
\* closed exactly once, by that task and after its last send: in no
\* interleaving of the Type C, Type D, generator and filter tasks is a Job
\* sent on a closed channel or a channel closed twice.
C20_SingleWriterCloseOnce ==
    /\ \A ch \in DOMAIN chanLog :
          /\ chanLog[ch].senders \subseteq {SenderOf(ch)}
          /\ chanLog[ch].closers \subseteq {SenderOf(ch)}
          /\ chanLog[ch].closes <= 1
          /\ ~chanLog[ch].sentAfterClose
          /\ IsClosed(ch) <=> chanLog[ch].closes = 1
          /\ (RanToEnd /\ Made(ch)) => chanLog[ch].closes = 1
    /\ cPc = "send" => ~cClosed[cSrc]
    /\ dPc = "send" => ~dClosed
    /\ genPc = "send" => ~genClosed
    /\ filPc = "send" => ~finalClosed

\* A Type D run over two sources has ended: each of the five channels has
\* carried a Job and has been closed.
C20_Witness ==
    /\ cpType = copyURLsTypeD
    /\ RanToEnd
    /\ NumSources = 2
    /\ \A ch \in DOMAIN chanLog :
          chanLog[ch].senders # {} /\ chanLog[ch].closes = 1

====
